---- MODULE Spec2Model ----
(***************************************************************************)
(* One exchange of the code-generation orchestrator: submitUserInput and   *)
(* its detached processEvents task (src/unnamed/part_000) together with    *)
(* the writer agent (src/lib/code-gen/agents/writer.tsx).                  *)
(*                                                                         *)
(* JavaScript runs each synchronous segment to completion; the model has   *)
(* one action per statement group and lets the caller's return fire only   *)
(* when processEvents is suspended at an await, and lets a continuation    *)
(* resume only after the caller has returned.                              *)
(***************************************************************************)
EXTENDS Integers, Sequences, FiniteSets, TLC

VARIABLES call, pc, skip, formData, aiState, aiDone, messages, aliased,
          action, inquiry, uiStream, isGenerating, isCollapsed, codeStream,
          code, errorOccurred, fullResponse, hasError, toolCalls, events,
          attempts, folded, calls, classification

vars == <<call, pc, skip, formData, aiState, aiDone, messages, aliased,
          action, inquiry, uiStream, isGenerating, isCollapsed, codeStream,
          code, errorOccurred, fullResponse, hasError, toolCalls, events,
          attempts, folded, calls, classification>>

(* ------------------------------- bounds -------------------------------- *)

\* writer calls counted exactly; later calls are folded onto the last one
MaxAttempts == 2
\* events one model stream may emit
MaxEvents == 3
\* how far the initial conversation may exceed the window maximum
MaxOver == 1

(* ------------------------- program constants --------------------------- *)

maxMessages == 10

SkipSentinel == <<"{\"action\": \"skip\"}">>
ErrorNotice == <<"\nError occurred while executing the tool">>
InquiryPrefix == <<"inquiry: ">>

(* ------------------------------ helpers -------------------------------- *)

Min(a, b) == IF a < b THEN a ELSE b
Max(a, b) == IF a > b THEN a ELSE b

\* cap of the misuse counters of a stream (they stay 0/1 in the program)
Cap(n) == Min(n, 3)

Turn(r, c, t, i) == [role |-> r, content |-> c, toolCalls |-> t, id |-> i]

\* a Turn left by an earlier exchange; id is its position in the history
HistTurn(i) ==
    Turn(IF i % 2 = 1 THEN "user" ELSE "assistant", <<"h">>, <<>>, i)

History(n) == [i \in 1..n |-> HistTurn(i)]

InitLens == {0} \cup (maxMessages..(maxMessages + MaxOver))

Forms == {"undefined", "form"}

\* the three shapes of a call: skip, form content, neither (skip and form
\* content are not sent together)
Inputs == {<<TRUE, "undefined">>} \cup {<<FALSE, fd>> : fd \in Forms}

\* JSON.stringify(Object.fromEntries(formData))
Stringify(fd) == <<"{\"input\":\"", fd, "\"}">>

Fragments == {<<>>, <<"a">>, <<"b">>}
ToolNames == {"t1"}

TextDelta(f) == [type |-> "text-delta", textDelta |-> f, toolName |-> ""]
ToolCall(t) == [type |-> "tool-call", textDelta |-> <<>>, toolName |-> t]
ErrorEvent == [type |-> "error", textDelta |-> <<>>, toolName |-> ""]
\* the stream type has this event; the switch in writer has no case for it
ToolResult(t) == [type |-> "tool-result", textDelta |-> <<>>, toolName |-> t]

Events == {TextDelta(f) : f \in Fragments} \cup {ToolCall(t) : t \in ToolNames}
          \cup {ErrorEvent} \cup {ToolResult(t) : t \in ToolNames}

\* what the Inquiry Agent may return as inquiry?.question
Questions == {"q1", "undefined"}

\* what the Decision Agent may answer; "null" is no structured result
Decisions == {"proceed", "inquire", "null"}

(* -------------------- streamable value / UI node ----------------------- *)

NewValue(v) == [value |-> v, done |-> 0, late |-> 0]

ValueDone(s, v) ==
    IF s.done > 0 THEN [s EXCEPT !.late = Cap(@ + 1), !.done = Cap(@ + 1)]
    ELSE [s EXCEPT !.value = v, !.done = 1]

\* done() without an argument keeps the current value
ValueDoneNoArg(s) == ValueDone(s, s.value)

NewUI == [nodes |-> <<"undefined">>, done |-> 0, late |-> 0]

\* update replaces the current (newest) node
UIUpdate(s, n) ==
    IF s.done > 0 THEN [s EXCEPT !.late = Cap(@ + 1)]
    ELSE [s EXCEPT !.nodes = [@ EXCEPT ![Len(@)] = n]]

\* append adds a node after the current one; the old one is then frozen
UIAppend(s, n) ==
    IF s.done > 0 THEN [s EXCEPT !.late = Cap(@ + 1)]
    ELSE [s EXCEPT !.nodes = Append(@, n)]

UIDone(s) ==
    IF s.done > 0 THEN [s EXCEPT !.late = Cap(@ + 1), !.done = Cap(@ + 1)]
    ELSE [s EXCEPT !.done = 1]

NoCodeStream == [created |-> FALSE, pushes |-> <<>>, done |-> 0, late |-> 0]

CodeUpdate(s, v) ==
    IF s.done > 0 THEN [s EXCEPT !.late = Cap(@ + 1)]
    ELSE [s EXCEPT !.pushes = Append(@, v)]

(* ------------- the agents' use of the shared UI Node ------------------- *)

\* the Inquiry Agent streams its question into the UI Node
InquireEffect(ui) == UIUpdate(ui, "Inquiry")

\* the Suggestion Agent streams its suggestions into the UI Node
AiSuggestorEffect(ui) == UIAppend(ui, "Suggestions")

(* ------------------------------- Init ---------------------------------- *)

Init ==
    /\ call = "idle"
    /\ pc = "idle"
    /\ skip = FALSE
    /\ formData = "undefined"
    /\ \E n \in InitLens : aiState = History(n)
    /\ aiDone = 0
    /\ messages = <<>>
    /\ aliased = FALSE
    /\ action = "proceed"
    /\ inquiry = "undefined"
    /\ uiStream = NewUI
    /\ isGenerating = NewValue(TRUE)
    /\ isCollapsed = NewValue(FALSE)
    /\ codeStream = NoCodeStream
    /\ code = <<>>
    /\ errorOccurred = FALSE
    /\ fullResponse = <<>>
    /\ hasError = FALSE
    /\ toolCalls = <<>>
    /\ events = <<>>
    /\ attempts = 0
    /\ folded = FALSE
    /\ calls = [a \in {"requirementsManager", "inquire", "aiSuggestor"} |-> 0]
    /\ classification = "pending"

(* -------------------------- submitUserInput ---------------------------- *)

\* messages.splice(0, Math.max(messages.length - maxMessages, 0))
Splice(m) == SubSeq(m, Max(Len(m) - maxMessages, 0) + 1, Len(m))

\* the content of the new user Turn, <<>> standing for null
Content(s, fd) ==
    IF s THEN SkipSentinel
    ELSE IF fd # "undefined" THEN Stringify(fd) ELSE <<>>

\* the body of submitUserInput up to the definition of processEvents.
\* messages is the very array aiState.get() returns, so splice and push act
\* on the AI state too; aiState.update installs a fresh array built from the
\* already pushed-to one, after which the two are separate arrays.
SubmitUserInput(s, fd) ==
    /\ call = "idle"
    /\ call' = "running"
    /\ pc' = "start"
    /\ skip' = s
    /\ formData' = fd
    /\ LET window == Splice(aiState)
           content == Content(s, fd)
           message == Turn("user", content, <<>>, 0)
       IN IF content # <<>>
          THEN /\ messages' = Append(window, message)
               /\ aiState' = Append(Append(window, message), message)
               /\ aliased' = FALSE
          ELSE /\ messages' = window
               /\ aiState' = window
               /\ aliased' = TRUE
    /\ UNCHANGED <<aiDone, action, inquiry, uiStream, isGenerating,
                   isCollapsed, codeStream, code, errorOccurred, fullResponse,
                   hasError, toolCalls, events, attempts, folded, calls,
                   classification>>

\* variant: the skip path yields to the caller before taking its branch
SuspendedAlsoBranch ==
    pc \in {"await_requirementsManager", "await_inquire", "await_streamText",
            "for_await", "await_aiSuggestor", "done", "branch"}

\* processEvents is parked at an await (or has finished)
Suspended ==
    pc \in {"await_requirementsManager", "await_inquire", "await_streamText",
            "for_await", "await_aiSuggestor", "done"}

\* processEvents() has run to its first await; the four handles are returned
Return ==
    /\ call = "running"
    /\ Suspended
    /\ call' = "returned"
    /\ UNCHANGED <<pc, classification, skip, formData, aiState, aiDone, messages, aliased,
                   action, inquiry, uiStream, isGenerating, isCollapsed,
                   codeStream, code, errorOccurred, fullResponse, hasError,
                   toolCalls, events, attempts, folded, calls>>

(* --------------------------- processEvents ----------------------------- *)

\* a continuation of processEvents runs only once the synchronous caller
\* has returned to the event loop
Resumable == call = "returned"

\* variant: the Decision Agent is asked even when the caller skips
ProcessEventsStartAlwaysClassify ==
    /\ pc = "start"
    /\ action' = "proceed"
    /\ calls' = [calls EXCEPT !["requirementsManager"] = @ + 1]
    /\ pc' = "await_requirementsManager"
    /\ UNCHANGED <<call, classification, skip, formData, aiState, aiDone, messages, aliased,
                   inquiry, uiStream, isGenerating, isCollapsed, codeStream,
                   code, errorOccurred, fullResponse, hasError, toolCalls,
                   events, attempts, folded>>

\* let action = {next: "proceed"}; if (!skip) action = await requirementsManager(messages)
ProcessEventsStart ==
    /\ pc = "start"
    /\ action' = "proceed"
    /\ IF ~skip
       THEN /\ calls' = [calls EXCEPT !["requirementsManager"] = @ + 1]
            /\ pc' = "await_requirementsManager"
       ELSE /\ calls' = calls
            /\ pc' = "branch"
    /\ UNCHANGED <<call, classification, skip, formData, aiState, aiDone, messages, aliased,
                   inquiry, uiStream, isGenerating, isCollapsed, codeStream,
                   code, errorOccurred, fullResponse, hasError, toolCalls,
                   events, attempts, folded>>

\* variant: the awaited value is taken as it comes, without the `?? action`
CoalesceNone(r, dflt) == r

\* (await requirementsManager(messages)) ?? action
Coalesce(r, dflt) == IF r = "null" THEN dflt ELSE r

\* the Decision Agent answers proceed, inquire, or nothing; classification
\* is the awaited value
RequirementsManagerReturns(r) ==
    /\ pc = "await_requirementsManager"
    /\ Resumable
    /\ classification' = r
    /\ pc' = "coalesce"
    /\ UNCHANGED <<call, skip, formData, aiState, aiDone, messages, aliased,
                   action, inquiry, uiStream, isGenerating, isCollapsed,
                   codeStream, code, errorOccurred, fullResponse, hasError,
                   toolCalls, events, attempts, folded, calls>>

\* action = <awaited value> ?? action; the awaited value is not kept
AssignAction ==
    /\ pc = "coalesce"
    /\ action' = Coalesce(classification, action)
    /\ classification' = "discarded"
    /\ pc' = "branch"
    /\ UNCHANGED <<call, skip, formData, aiState, aiDone, messages, aliased,
                   inquiry, uiStream, isGenerating, isCollapsed, codeStream,
                   code, errorOccurred, fullResponse, hasError, toolCalls,
                   events, attempts, folded, calls>>

\* if (action.object.next === "inquire")
Branch ==
    /\ pc = "branch"
    /\ pc' = IF action = "inquire" THEN "call_inquire" ELSE "isCollapsed_done"
    /\ UNCHANGED <<call, classification, skip, formData, aiState, aiDone, messages, aliased,
                   action, inquiry, uiStream, isGenerating, isCollapsed,
                   codeStream, code, errorOccurred, fullResponse, hasError,
                   toolCalls, events, attempts, folded, calls>>

(* ---- inquire branch ---- *)

\* const inquiry = await inquire(uiStream, messages), up to the await
CallInquire ==
    /\ pc = "call_inquire"
    /\ calls' = [calls EXCEPT !["inquire"] = @ + 1]
    /\ uiStream' = InquireEffect(uiStream)
    /\ pc' = "await_inquire"
    /\ UNCHANGED <<call, classification, skip, formData, aiState, aiDone, messages, aliased,
                   action, inquiry, isGenerating, isCollapsed, codeStream,
                   code, errorOccurred, fullResponse, hasError, toolCalls,
                   events, attempts, folded>>

InquireReturns(q) ==
    /\ pc = "await_inquire"
    /\ Resumable
    /\ inquiry' = q
    /\ pc' = "inquire_uiStream_done"
    /\ UNCHANGED <<call, classification, skip, formData, aiState, aiDone, messages, aliased,
                   action, uiStream, isGenerating, isCollapsed, codeStream,
                   code, errorOccurred, fullResponse, hasError, toolCalls,
                   events, attempts, folded, calls>>

\* uiStream.done()
InquireUiStreamDone ==
    /\ pc = "inquire_uiStream_done"
    /\ uiStream' = UIDone(uiStream)
    /\ pc' = "inquire_isGenerating_done"
    /\ UNCHANGED <<call, classification, skip, formData, aiState, aiDone, messages, aliased,
                   action, inquiry, isGenerating, isCollapsed, codeStream,
                   code, errorOccurred, fullResponse, hasError, toolCalls,
                   events, attempts, folded, calls>>

\* isGenerating.done()
InquireIsGeneratingDone ==
    /\ pc = "inquire_isGenerating_done"
    /\ isGenerating' = ValueDoneNoArg(isGenerating)
    /\ pc' = "inquire_isCollapsed_done"
    /\ UNCHANGED <<call, classification, skip, formData, aiState, aiDone, messages, aliased,
                   action, inquiry, uiStream, isCollapsed, codeStream,
                   code, errorOccurred, fullResponse, hasError, toolCalls,
                   events, attempts, folded, calls>>

\* isCollapsed.done(false)
InquireIsCollapsedDone ==
    /\ pc = "inquire_isCollapsed_done"
    /\ isCollapsed' = ValueDone(isCollapsed, FALSE)
    /\ pc' = "inquire_aiState_done"
    /\ UNCHANGED <<call, classification, skip, formData, aiState, aiDone, messages, aliased,
                   action, inquiry, uiStream, isGenerating, codeStream,
                   code, errorOccurred, fullResponse, hasError, toolCalls,
                   events, attempts, folded, calls>>

\* `inquiry: ${inquiry?.question}`
InquiryContent(q) == InquiryPrefix \o <<q>>

\* variant: the inquire branch lacks its `return` and falls through
InquireAiStateDoneNoReturn ==
    /\ pc = "inquire_aiState_done"
    /\ aiState' = Append(aiState, Turn("assistant", InquiryContent(inquiry), <<>>, 0))
    /\ aiDone' = Cap(aiDone + 1)
    /\ aliased' = FALSE
    /\ pc' = "isCollapsed_done"
    /\ UNCHANGED <<call, classification, skip, formData, messages, action, inquiry, uiStream,
                   isGenerating, isCollapsed, codeStream, code, errorOccurred,
                   fullResponse, hasError, toolCalls, events, attempts,
                   folded, calls>>

\* aiState.done([...aiState.get(), {role: "assistant", content: ...}]); return
InquireAiStateDone ==
    /\ pc = "inquire_aiState_done"
    /\ aiState' = Append(aiState, Turn("assistant", InquiryContent(inquiry), <<>>, 0))
    /\ aiDone' = Cap(aiDone + 1)
    /\ aliased' = FALSE
    /\ pc' = "done"
    /\ UNCHANGED <<call, classification, skip, formData, messages, action, inquiry, uiStream,
                   isGenerating, isCollapsed, codeStream, code, errorOccurred,
                   fullResponse, hasError, toolCalls, events, attempts,
                   folded, calls>>

(* ---- generation branch ---- *)

\* isCollapsed.done(true)
IsCollapsedDone ==
    /\ pc = "isCollapsed_done"
    /\ isCollapsed' = ValueDone(isCollapsed, TRUE)
    /\ pc' = "generate_init"
    /\ UNCHANGED <<call, classification, skip, formData, aiState, aiDone, messages, aliased,
                   action, inquiry, uiStream, isGenerating, codeStream,
                   code, errorOccurred, fullResponse, hasError, toolCalls,
                   events, attempts, folded, calls>>

\* let code = ""; errorOccurred = false; codeStream = createStreamableValue();
\* uiStream.update(<Spinner message="Assistant thinking..." />)
GenerateInit ==
    /\ pc = "generate_init"
    /\ code' = <<>>
    /\ errorOccurred' = FALSE
    /\ codeStream' = [NoCodeStream EXCEPT !.created = TRUE]
    /\ uiStream' = UIUpdate(uiStream, "Spinner: Assistant thinking...")
    /\ pc' = "loop_test"
    /\ UNCHANGED <<call, classification, skip, formData, aiState, aiDone, messages, aliased,
                   action, inquiry, isGenerating, isCollapsed, fullResponse,
                   hasError, toolCalls, events, attempts, folded, calls>>

\* variant: a one-token text is retried as well
LoopConditionShort(c) == Len(c) <= 1

\* while (code.length === 0)
LoopCondition(c) == Len(c) = 0

LoopTest ==
    /\ pc = "loop_test"
    /\ pc' = IF LoopCondition(code) THEN "call_writer" ELSE "after_loop"
    /\ UNCHANGED <<call, classification, skip, formData, aiState, aiDone, messages, aliased,
                   action, inquiry, uiStream, isGenerating, isCollapsed,
                   codeStream, code, errorOccurred, fullResponse, hasError,
                   toolCalls, events, attempts, folded, calls>>

\* writer(uiStream, codeStream, messages) up to `await streamText(...)`.
\* Calls beyond MaxAttempts are folded onto the last counted one.
CallWriter ==
    /\ pc = "call_writer"
    /\ fullResponse' = <<>>
    /\ hasError' = FALSE
    /\ toolCalls' = <<>>
    /\ events' = <<>>
    /\ IF attempts < MaxAttempts
       THEN attempts' = attempts + 1 /\ folded' = folded
       ELSE attempts' = attempts /\ folded' = TRUE
    /\ pc' = "await_streamText"
    /\ UNCHANGED <<call, classification, skip, formData, aiState, aiDone, messages, aliased,
                   action, inquiry, uiStream, isGenerating, isCollapsed,
                   codeStream, code, errorOccurred, calls>>

\* streamText resolves; the loop over result.fullStream begins
StreamTextReturns ==
    /\ pc = "await_streamText"
    /\ Resumable
    /\ pc' = "for_await"
    /\ UNCHANGED <<call, classification, skip, formData, aiState, aiDone, messages, aliased,
                   action, inquiry, uiStream, isGenerating, isCollapsed,
                   codeStream, code, errorOccurred, fullResponse, hasError,
                   toolCalls, events, attempts, folded, calls>>

\* variant: `=` in place of `+=`
AccumulateAssign(full, delta) == delta

\* fullResponse += delta.textDelta
Accumulate(full, delta) == full \o delta

\* if (delta.textDelta): the empty string is falsy
Truthy(delta) == Len(delta) > 0

\* if (fullResponse.length === 0 && delta.textDelta.length > 0)
FirstText(full, delta) == Len(full) = 0 /\ Len(delta) > 0

\* variant: an error event raises the flag but leaves the text as it is
ConsumeDeltaNoNotice(e) ==
    /\ pc = "for_await"
    /\ Resumable
    /\ Len(events) < MaxEvents
    /\ events' = Append(events, e)
    /\ IF e.type = "text-delta" /\ Truthy(e.textDelta)
       THEN /\ uiStream' =
                  IF FirstText(fullResponse, e.textDelta)
                  THEN UIAppend(UIUpdate(uiStream, "Section: Code"),
                                "Spinner: Generating code...")
                  ELSE uiStream
            /\ fullResponse' = Accumulate(fullResponse, e.textDelta)
            /\ codeStream' = CodeUpdate(codeStream, fullResponse')
            /\ UNCHANGED <<toolCalls, hasError>>
       ELSE IF e.type = "tool-call"
       THEN /\ toolCalls' = Append(toolCalls, e.toolName)
            /\ UNCHANGED <<uiStream, fullResponse, codeStream, hasError>>
       ELSE IF e.type = "error"
       THEN /\ hasError' = TRUE
            /\ UNCHANGED <<uiStream, fullResponse, codeStream, toolCalls>>
       ELSE UNCHANGED <<uiStream, fullResponse, codeStream, toolCalls, hasError>>
    /\ UNCHANGED <<call, classification, pc, skip, formData, aiState, aiDone, messages,
                   aliased, action, inquiry, isGenerating, isCollapsed, code,
                   errorOccurred, attempts, folded, calls>>

\* one iteration of `for await (const delta of result.fullStream)`
ConsumeDelta(e) ==
    /\ pc = "for_await"
    /\ Resumable
    /\ Len(events) < MaxEvents
    /\ events' = Append(events, e)
    /\ IF e.type = "text-delta" /\ Truthy(e.textDelta)
       THEN /\ uiStream' =
                  IF FirstText(fullResponse, e.textDelta)
                  THEN UIAppend(UIUpdate(uiStream, "Section: Code"),
                                "Spinner: Generating code...")
                  ELSE uiStream
            /\ fullResponse' = Accumulate(fullResponse, e.textDelta)
            /\ codeStream' = CodeUpdate(codeStream, fullResponse')
            /\ UNCHANGED <<toolCalls, hasError>>
       ELSE IF e.type = "tool-call"
       THEN /\ toolCalls' = Append(toolCalls, e.toolName)
            /\ UNCHANGED <<uiStream, fullResponse, codeStream, hasError>>
       ELSE IF e.type = "error"
       THEN /\ hasError' = TRUE
            /\ fullResponse' = fullResponse \o ErrorNotice
            /\ UNCHANGED <<uiStream, codeStream, toolCalls>>
       ELSE UNCHANGED <<uiStream, fullResponse, codeStream, toolCalls, hasError>>
    /\ UNCHANGED <<call, classification, pc, skip, formData, aiState, aiDone, messages,
                   aliased, action, inquiry, isGenerating, isCollapsed, code,
                   errorOccurred, attempts, folded, calls>>

\* the model's event stream ends
StreamEnds ==
    /\ pc = "for_await"
    /\ Resumable
    /\ pc' = "writer_finish"
    /\ UNCHANGED <<call, classification, skip, formData, aiState, aiDone, messages, aliased,
                   action, inquiry, uiStream, isGenerating, isCollapsed,
                   codeStream, code, errorOccurred, fullResponse, hasError,
                   toolCalls, events, attempts, folded, calls>>

\* variant: the attempt ends without uiStream.update(null)
WriterFinishNoClear ==
    /\ pc = "writer_finish"
    /\ LET turn == Turn("assistant", fullResponse, toolCalls, 0)
       IN IF folded
          THEN UNCHANGED <<messages, aiState>>
          ELSE /\ messages' = Append(messages, turn)
               /\ aiState' = IF aliased THEN Append(aiState, turn) ELSE aiState
    /\ code' = fullResponse
    /\ errorOccurred' = hasError
    /\ pc' = "loop_test"
    /\ UNCHANGED <<call, classification, skip, formData, aiDone, aliased, action, inquiry,
                   uiStream, isGenerating, isCollapsed, codeStream, fullResponse,
                   hasError, toolCalls, events, attempts, folded, calls>>

\* variant: the attempt returns its text without clearing the indicator or
\* recording its Turn
WriterFinishNoRecord ==
    /\ pc = "writer_finish"
    /\ code' = fullResponse
    /\ errorOccurred' = hasError
    /\ pc' = "loop_test"
    /\ UNCHANGED <<call, classification, skip, formData, aiState, aiDone, messages, aliased,
                   action, inquiry, uiStream, isGenerating, isCollapsed,
                   codeStream, fullResponse, hasError, toolCalls, events,
                   attempts, folded, calls>>

\* uiStream.update(null); messages.push({role: "assistant", ...}); return;
\* and in the caller: code = fullResponse; errorOccurred = hasError.
\* toolResponses stays empty, so no tool Turn is pushed.  A folded attempt
\* leaves the arrays as they are.
WriterFinish ==
    /\ pc = "writer_finish"
    /\ uiStream' = UIUpdate(uiStream, "null")
    /\ LET turn == Turn("assistant", fullResponse, toolCalls, 0)
       IN IF folded
          THEN UNCHANGED <<messages, aiState>>
          ELSE /\ messages' = Append(messages, turn)
               /\ aiState' = IF aliased THEN Append(aiState, turn) ELSE aiState
    /\ code' = fullResponse
    /\ errorOccurred' = hasError
    /\ pc' = "loop_test"
    /\ UNCHANGED <<call, classification, skip, formData, aiDone, aliased, action, inquiry,
                   isGenerating, isCollapsed, codeStream, fullResponse,
                   hasError, toolCalls, events, attempts, folded, calls>>

\* variant: the suggestions run whatever the error flag says
RunSuggestorAlways(err) == TRUE

\* if (!errorOccurred)
RunSuggestor(err) == ~err

AfterLoop ==
    /\ pc = "after_loop"
    /\ pc' = IF RunSuggestor(errorOccurred) THEN "call_aiSuggestor"
             ELSE "isGenerating_done"
    /\ UNCHANGED <<call, classification, skip, formData, aiState, aiDone, messages, aliased,
                   action, inquiry, uiStream, isGenerating, isCollapsed,
                   codeStream, code, errorOccurred, fullResponse, hasError,
                   toolCalls, events, attempts, folded, calls>>

\* await aiSuggestor(uiStream, messages), up to the await
CallAiSuggestor ==
    /\ pc = "call_aiSuggestor"
    /\ calls' = [calls EXCEPT !["aiSuggestor"] = @ + 1]
    /\ uiStream' = AiSuggestorEffect(uiStream)
    /\ pc' = "await_aiSuggestor"
    /\ UNCHANGED <<call, classification, skip, formData, aiState, aiDone, messages, aliased,
                   action, inquiry, isGenerating, isCollapsed, codeStream,
                   code, errorOccurred, fullResponse, hasError, toolCalls,
                   events, attempts, folded>>

AiSuggestorReturns ==
    /\ pc = "await_aiSuggestor"
    /\ Resumable
    /\ pc' = "append_followup"
    /\ UNCHANGED <<call, classification, skip, formData, aiState, aiDone, messages, aliased,
                   action, inquiry, uiStream, isGenerating, isCollapsed,
                   codeStream, code, errorOccurred, fullResponse, hasError,
                   toolCalls, events, attempts, folded, calls>>

\* uiStream.append(<Section title="Follow-up">...)
AppendFollowup ==
    /\ pc = "append_followup"
    /\ uiStream' = UIAppend(uiStream, "Section: Follow-up")
    /\ pc' = "isGenerating_done"
    /\ UNCHANGED <<call, classification, skip, formData, aiState, aiDone, messages, aliased,
                   action, inquiry, isGenerating, isCollapsed, codeStream,
                   code, errorOccurred, fullResponse, hasError, toolCalls,
                   events, attempts, folded, calls>>

\* variant: the finalisation also closes isCollapsed, as the inquire branch does
IsGeneratingDoneAlsoCollapsed ==
    /\ pc = "isGenerating_done"
    /\ isGenerating' = ValueDone(isGenerating, FALSE)
    /\ isCollapsed' = ValueDone(isCollapsed, FALSE)
    /\ pc' = "uiStream_done"
    /\ UNCHANGED <<call, classification, skip, formData, aiState, aiDone, messages, aliased,
                   action, inquiry, uiStream, codeStream,
                   code, errorOccurred, fullResponse, hasError, toolCalls,
                   events, attempts, folded, calls>>

\* isGenerating.done(false)
IsGeneratingDone ==
    /\ pc = "isGenerating_done"
    /\ isGenerating' = ValueDone(isGenerating, FALSE)
    /\ pc' = "uiStream_done"
    /\ UNCHANGED <<call, classification, skip, formData, aiState, aiDone, messages, aliased,
                   action, inquiry, uiStream, isCollapsed, codeStream,
                   code, errorOccurred, fullResponse, hasError, toolCalls,
                   events, attempts, folded, calls>>

\* variant: the last two statements swapped, the commit taking the place
\* of uiStream.done()
UiStreamDoneCommitFirst ==
    /\ pc = "uiStream_done"
    /\ aiState' = Append(aiState, Turn("assistant", code, <<>>, 0))
    /\ aiDone' = Cap(aiDone + 1)
    /\ aliased' = FALSE
    /\ pc' = "aiState_done"
    /\ UNCHANGED <<call, classification, skip, formData, messages, action, inquiry, uiStream,
                   isGenerating, isCollapsed, codeStream, code, errorOccurred,
                   fullResponse, hasError, toolCalls, events, attempts,
                   folded, calls>>

\* uiStream.done()
UiStreamDone ==
    /\ pc = "uiStream_done"
    /\ uiStream' = UIDone(uiStream)
    /\ pc' = "aiState_done"
    /\ UNCHANGED <<call, classification, skip, formData, aiState, aiDone, messages, aliased,
                   action, inquiry, isGenerating, isCollapsed, codeStream,
                   code, errorOccurred, fullResponse, hasError, toolCalls,
                   events, attempts, folded, calls>>

\* variant: the commit is built from the window handed to the agents
AiStateDoneFromMessages ==
    /\ pc = "aiState_done"
    /\ aiState' = Append(messages, Turn("assistant", code, <<>>, 0))
    /\ aiDone' = Cap(aiDone + 1)
    /\ aliased' = FALSE
    /\ pc' = "done"
    /\ UNCHANGED <<call, classification, skip, formData, messages, action, inquiry, uiStream,
                   isGenerating, isCollapsed, codeStream, code, errorOccurred,
                   fullResponse, hasError, toolCalls, events, attempts,
                   folded, calls>>

\* aiState.done([...aiState.get(), {role: "assistant", content: code}])
AiStateDone ==
    /\ pc = "aiState_done"
    /\ aiState' = Append(aiState, Turn("assistant", code, <<>>, 0))
    /\ aiDone' = Cap(aiDone + 1)
    /\ aliased' = FALSE
    /\ pc' = "done"
    /\ UNCHANGED <<call, classification, skip, formData, messages, action, inquiry, uiStream,
                   isGenerating, isCollapsed, codeStream, code, errorOccurred,
                   fullResponse, hasError, toolCalls, events, attempts,
                   folded, calls>>

(* ------------------------------ Next ----------------------------------- *)

Next ==
    \/ \E in \in Inputs : SubmitUserInput(in[1], in[2])
    \/ Return
    \/ ProcessEventsStart
    \/ \E r \in Decisions : RequirementsManagerReturns(r)
    \/ AssignAction
    \/ Branch
    \/ CallInquire
    \/ \E q \in Questions : InquireReturns(q)
    \/ InquireUiStreamDone
    \/ InquireIsGeneratingDone
    \/ InquireIsCollapsedDone
    \/ InquireAiStateDone
    \/ IsCollapsedDone
    \/ GenerateInit
    \/ LoopTest
    \/ CallWriter
    \/ StreamTextReturns
    \/ \E e \in Events : ConsumeDelta(e)
    \/ StreamEnds
    \/ WriterFinish
    \/ AfterLoop
    \/ CallAiSuggestor
    \/ AiSuggestorReturns
    \/ AppendFollowup
    \/ IsGeneratingDone
    \/ UiStreamDone
    \/ AiStateDone

Spec == Init /\ [][Next]_vars

\* the event loop keeps running the task and the collaborators keep answering
FairSpec == Spec /\ WF_vars(Next)

TypeOK ==
    /\ call \in {"idle", "running", "returned"}
    /\ skip \in BOOLEAN
    /\ action \in {"proceed", "inquire"}
    /\ attempts \in 0..MaxAttempts
    /\ Len(events) <= MaxEvents
    /\ aiDone \in 0..3
    /\ classification \in {"pending", "discarded"} \cup Decisions

(* ----------------------- derived observations -------------------------- *)

\* the generation path has passed its retry loop
PostLoop ==
    \/ pc \in {"after_loop", "call_aiSuggestor", "await_aiSuggestor",
               "append_followup", "isGenerating_done", "uiStream_done",
               "aiState_done"}
    \/ pc = "done" /\ calls["inquire"] = 0

\* the exchange has ended on the generation path / on the inquire path
GenerateEnded == pc = "done" /\ calls["inquire"] = 0
InquireEnded == pc = "done" /\ calls["inquire"] > 0

IsAttemptTurn(t) == t.role = "assistant" /\ t.id = 0

\* the texts the writer calls of this exchange have returned, in call order
\* (each call records its text as an assistant Turn of the window)
AttemptTexts ==
    LET turns == SelectSeq(messages, IsAttemptTurn)
    IN [i \in 1..Len(turns) |-> turns[i].content]

ExchangeStreams == <<isGenerating, uiStream, isCollapsed>>

(* ------------------------------ claims --------------------------------- *)

\* C1: on every path each of isGenerating, component (uiStream) and
\* isCollapsed has done() invoked at most once and receives no update,
\* append or done after its done(); an exchange that has terminated has
\* invoked done() exactly once on each of the three.
C1_StreamsDoneOnce ==
    /\ \A i \in 1..3 : ExchangeStreams[i].done <= 1 /\ ExchangeStreams[i].late = 0
    /\ pc = "done" => \A i \in 1..3 : ExchangeStreams[i].done = 1

\* a generation exchange that retried, hit a model error and terminated
C1_Witness ==
    /\ pc = "done"
    /\ attempts = 2
    /\ errorOccurred
    /\ \A i \in 1..3 : ExchangeStreams[i].done = 1

\* C2: retry invariant.  While writer calls are counted exactly: every
\* returned text but the last is empty, no call starts after a non-empty
\* text was returned, and the loop is left only with a non-empty last text,
\* so N empty texts followed by a non-empty one make exactly N+1 calls.
C2_RetryInvariant ==
    ~folded =>
      LET texts == AttemptTexts
      IN /\ Len(texts) \in {attempts - 1, attempts}
         /\ \A i \in 1..Len(texts) :
               texts[i] # <<>> => i = Len(texts) /\ attempts = Len(texts)
         /\ PostLoop => /\ attempts >= 1
                        /\ Len(texts) = attempts
                        /\ texts[attempts] # <<>>
                        /\ code = texts[attempts]

\* one empty attempt, then a non-empty one: two calls, loop left
C2_Witness ==
    /\ pc = "after_loop"
    /\ ~folded
    /\ attempts = 2
    /\ AttemptTexts[1] = <<>>
    /\ AttemptTexts[2] # <<>>

\* C3: liveness.  Under weak fairness of the orchestrator task, and for
\* every behaviour of the model collaborators, the UI stream eventually
\* reaches the done state.
C3_UiStreamEventuallyDone == <>(uiStream.done = 1)

\* an agent call is in flight; it holds the window `messages`
InAgentCall ==
    pc \in {"await_requirementsManager", "await_inquire", "await_streamText",
            "for_await", "await_aiSuggestor"}

\* C4: window bound.  At every call to an agent the Turn sequence passed to
\* it holds at most maxMessages Turns.
C4_WindowBound == InAgentCall => Len(messages) <= maxMessages

\* the step in which submitUserInput hands its four handles to the caller
ReturnStep == call = "running" /\ call' = "returned"

\* C5 as stated: at the instant submitUserInput returns, none of
\* isGenerating, component and isCollapsed is done, for every input.
C5_HandlesLiveAtReturn ==
    [][ReturnStep => /\ isGenerating'.done = 0
                     /\ uiStream'.done = 0
                     /\ isCollapsed'.done = 0]_vars

\* C5 amended: at the instant submitUserInput returns, isGenerating and
\* component are not done for every input; isCollapsed is not done when
\* skip is false and is already done, with value true, when skip is true.
C5_HandlesAtReturn ==
    [][ReturnStep => /\ isGenerating'.done = 0
                     /\ uiStream'.done = 0
                     /\ isCollapsed'.done = (IF skip' THEN 1 ELSE 0)
                     /\ skip' => isCollapsed'.value = TRUE]_vars

\* the caller holds the handles of a skip exchange whose first writer call
\* is parked at streamText
C5_Witness ==
    /\ call = "returned"
    /\ skip
    /\ pc = "await_streamText"
    /\ attempts = 1 /\ ~folded
    /\ isCollapsed.done = 1
    /\ isGenerating.done = 0
    /\ uiStream.done = 0

\* C6: in an exchange whose Decision is inquire, the writer is never
\* called, no code Value stream is created or updated, the Suggestion Agent
\* is never called, the Conversation State changes only by the final commit
\* appending one assistant Turn "inquiry: <question>", and the exchange ends
\* with all three streams done.
C6_InquireBranch ==
    /\ [](calls["inquire"] > 0 =>
            /\ action = "inquire"
            /\ calls["inquire"] = 1
            /\ attempts = 0
            /\ AttemptTexts = <<>>
            /\ ~codeStream.created
            /\ codeStream.pushes = <<>>
            /\ calls["aiSuggestor"] = 0
            /\ pc = "done" =>
                 /\ \A i \in 1..3 : ExchangeStreams[i].done = 1
                 /\ aiDone = 1
                 /\ aiState[Len(aiState)] =
                      Turn("assistant", <<"inquiry: ", inquiry>>, <<>>, 0))
    /\ [][calls["inquire"] > 0 =>
            \/ aiState' = aiState
            \/ /\ pc' = "done"
               /\ Len(aiState') = Len(aiState) + 1
               /\ SubSeq(aiState', 1, Len(aiState)) = aiState
               /\ aiState'[Len(aiState')].role = "assistant"]_vars

\* an inquire exchange that has ended with a question
C6_Witness ==
    /\ InquireEnded
    /\ inquiry = "q1"
    /\ aiDone = 1
    /\ formData = "form"

\* C7: the Conversation State is committed at most once, exactly once when
\* the exchange has terminated, only with isGenerating, component and
\* isCollapsed all done, and nothing happens after the commit.
C7_CommitOnceLast ==
    /\ [](/\ aiDone <= 1
          /\ pc = "done" <=> aiDone = 1
          /\ aiDone = 1 => \A i \in 1..3 : ExchangeStreams[i].done = 1)
    /\ [][aiDone = 0]_vars

\* a generation exchange committed after its suggestions
C7_Witness ==
    /\ GenerateEnded
    /\ aiDone = 1
    /\ calls["aiSuggestor"] = 1
    /\ uiStream.done = 1

Front(q) == SubSeq(q, 1, Len(q) - 1)

RECURSIVE Concat(_)
\* the text fragments of an event sequence, concatenated in emission order
Concat(es) ==
    IF es = <<>> THEN <<>>
    ELSE Concat(Front(es)) \o
         (IF es[Len(es)].type = "text-delta" THEN es[Len(es)].textDelta ELSE <<>>)

RECURSIVE Prefixes(_)
\* one prefix of the concatenation per non-empty fragment, in order
Prefixes(es) ==
    IF es = <<>> THEN <<>>
    ELSE IF es[Len(es)].type = "text-delta" /\ es[Len(es)].textDelta # <<>>
         THEN Append(Prefixes(Front(es)), Concat(es))
         ELSE Prefixes(Front(es))

NoError(es) == \A i \in 1..Len(es) : es[i].type # "error"

\* the latest writer call has returned and no new one has started
AttemptReturned == pc \in {"loop_test", "call_writer"} \/ PostLoop

\* C8: for a generation attempt whose event stream holds no error event,
\* the text built (and returned) by writer is the concatenation of the
\* stream's text fragments in emission order and the values pushed to the
\* code Value stream are the successive prefixes of it, one per non-empty
\* fragment; a non-empty first text means exactly one attempt, and the
\* committed assistant content equals it.
C8_TextIsConcatenation ==
    /\ (attempts >= 1 /\ NoError(events)) =>
          /\ fullResponse = Concat(events)
          /\ codeStream.pushes = Prefixes(events)
          /\ AttemptReturned => code = Concat(events)
          /\ GenerateEnded /\ attempts = 1 =>
                aiState[Len(aiState)].content = Concat(events)
    /\ (AttemptTexts # <<>> /\ AttemptTexts[1] # <<>>) =>
          attempts = 1 /\ ~folded /\ Len(AttemptTexts) = 1

\* a single attempt streamed "a" then "b" and the exchange committed "ab"
C8_Witness ==
    /\ GenerateEnded
    /\ attempts = 1
    /\ ~errorOccurred
    /\ code = <<"a", "b">>
    /\ codeStream.pushes = << <<"a">>, <<"a", "b">> >>

\* C9: on the generation path the Suggestion Agent is invoked, and the
\* follow-up section appended after it has returned, if and only if the
\* last attempt returned errorOccurred = false; with errorOccurred = true
\* neither happens and the exchange still closes isGenerating and the UI
\* stream and commits the Conversation State.
C9_SuggestorIffNoError ==
    LET followup == \E i \in 1..Len(uiStream.nodes) :
                        uiStream.nodes[i] = "Section: Follow-up"
    IN /\ calls["aiSuggestor"] > 0 =>
             PostLoop /\ ~errorOccurred /\ calls["aiSuggestor"] = 1
       /\ followup =>
             /\ calls["aiSuggestor"] = 1
             /\ pc \in {"isGenerating_done", "uiStream_done", "aiState_done", "done"}
       /\ GenerateEnded =>
             /\ calls["aiSuggestor"] = 1 <=> ~errorOccurred
             /\ followup <=> ~errorOccurred
             /\ isGenerating.done = 1
             /\ uiStream.done = 1
             /\ aiDone = 1

\* an exchange that accepted a text carrying the error notice and ended
\* without suggestions
C9_Witness ==
    /\ GenerateEnded
    /\ errorOccurred
    /\ code # <<>>
    /\ calls["aiSuggestor"] = 0
    /\ aiDone = 1

\* C10: with skip = true the Decision Agent is never invoked, the Decision
\* is proceed and the generation path runs (isCollapsed closes with true,
\* the writer is called); with skip = false the Decision Agent is invoked
\* exactly once, before any branch is taken.
C10_SkipBypassesDecision ==
    call # "idle" =>
      /\ skip =>
           /\ calls["requirementsManager"] = 0
           /\ action = "proceed"
           /\ calls["inquire"] = 0
           /\ pc \notin {"start", "branch", "isCollapsed_done"} =>
                 isCollapsed.done = 1 /\ isCollapsed.value = TRUE
           /\ (PostLoop \/ pc = "done") => attempts >= 1
      /\ ~skip =>
           calls["requirementsManager"] = (IF pc = "start" THEN 0 ELSE 1)

\* a skip exchange that generated code and ended
C10_Witness ==
    /\ skip
    /\ pc = "done"
    /\ calls["requirementsManager"] = 0
    /\ isCollapsed.value = TRUE
    /\ attempts >= 1

\* submitUserInput has run and neither a writer call nor a commit has
\* touched the Conversation State since
AfterSubmit == call # "idle" /\ attempts = 0 /\ aiDone = 0

\* C11: a submit with skip = true or with form content leaves the
\* Conversation State holding the truncated window plus exactly one user
\* Turn (the skip sentinel or the serialized form), appended last and not
\* duplicated; a submit with neither appends no user Turn and hands the
\* truncated window unmodified to the Decision Agent.
C11_OneUserTurn ==
    AfterSubmit =>
      \E n \in InitLens :
         LET w == Splice(History(n))
         IN IF skip
            THEN aiState = Append(w, Turn("user", SkipSentinel, <<>>, 0))
            ELSE IF formData # "undefined"
            THEN aiState = Append(w, Turn("user", Stringify(formData), <<>>, 0))
            ELSE aiState = w /\ messages = w

\* C12: when a generation exchange has terminated, the committed
\* Conversation State ends with an assistant Turn whose content is the text
\* the final writer call returned, and the commit added exactly that one
\* Turn to the state as it stood just before.
C12_CommitFinalText ==
    /\ [](GenerateEnded =>
            /\ fullResponse # <<>>
            /\ aiState[Len(aiState)] = Turn("assistant", fullResponse, <<>>, 0)
            /\ ~folded => AttemptTexts[attempts] = fullResponse)
    /\ [][pc = "aiState_done" =>
            /\ Len(aiState') = Len(aiState) + 1
            /\ SubSeq(aiState', 1, Len(aiState)) = aiState
            /\ aiState'[Len(aiState')].role = "assistant"]_vars

\* a submit with neither skip nor form content, committed after one retry
C12_Witness ==
    /\ GenerateEnded
    /\ ~skip
    /\ formData = "undefined"
    /\ attempts = 2 /\ ~folded
    /\ aiState[Len(aiState)].content = code

\* the positions of the generation path, from the branch point on
GenerationPath ==
    {"branch", "isCollapsed_done", "generate_init", "loop_test", "call_writer",
     "await_streamText", "for_await", "writer_finish", "after_loop",
     "call_aiSuggestor", "await_aiSuggestor", "append_followup",
     "isGenerating_done", "uiStream_done", "aiState_done", "done"}

\* C13: fail-open classification.  When skip is false and the Decision
\* Agent's call yields no structured result, the Decision becomes proceed
\* in the next step, and an exchange whose Decision is proceed leaves the
\* branch point onto the generation path: it neither stays in Classifying
\* nor enters the inquire branch.
C13_FailOpen ==
    /\ [](pc = "coalesce" => ~skip /\ calls["requirementsManager"] = 1)
    /\ [][(pc = "coalesce" /\ classification = "null") =>
            (action' = "proceed" /\ pc' = "branch")]_vars
    /\ [][(pc = "branch" /\ action = "proceed") => pc' = "isCollapsed_done"]_vars
    /\ []((classification = "discarded" /\ action = "proceed") =>
            (pc \in GenerationPath /\ calls["inquire"] = 0))

\* the Decision Agent has answered without a structured result
C13_Witness ==
    /\ pc = "coalesce"
    /\ classification = "null"
    /\ ~skip
    /\ calls["requirementsManager"] = 1
    /\ formData = "form"

\* b extends a by at least one token
Extends(a, b) == Len(a) < Len(b) /\ SubSeq(b, 1, Len(a)) = a

\* a writer call is between its start and its return
InAttempt == pc \in {"await_streamText", "for_await", "writer_finish"}

\* C14: attempts never overlap and keep event order.  Each value pushed to
\* the code Value stream extends the one pushed before it; and while a
\* writer call is in flight every earlier call has recorded its assistant
\* Turn, and, until the call installs its own nodes, the UI Node still shows
\* the cleared indicator of the call before.
C14_AttemptsSequential ==
    /\ \A i \in 1..(Len(codeStream.pushes) - 1) :
          Extends(codeStream.pushes[i], codeStream.pushes[i + 1])
    /\ (InAttempt /\ ~folded) => Len(AttemptTexts) = attempts - 1
    /\ (pc \in {"await_streamText", "for_await"} /\ attempts >= 2
          /\ fullResponse = <<>>) =>
          uiStream.nodes[Len(uiStream.nodes)] = "null"

\* the second attempt is streaming and has pushed two values
C14_Witness ==
    /\ pc = "for_await"
    /\ attempts = 2 /\ ~folded
    /\ Len(AttemptTexts) = 1
    /\ Len(codeStream.pushes) = 2

RECURSIVE TextOf(_)
\* the text an event sequence amounts to: fragments and error notices in
\* emission order
TextOf(es) ==
    IF es = <<>> THEN <<>>
    ELSE TextOf(Front(es)) \o
         (IF es[Len(es)].type = "text-delta" THEN es[Len(es)].textDelta
          ELSE IF es[Len(es)].type = "error"
               THEN <<"\nError occurred while executing the tool">>
               ELSE <<>>)

\* C15: an attempt whose event stream holds an error event has the error
\* flag set and a non-empty text containing the fixed notice, wherever the
\* error falls; the events after it are still consumed in order; it returns
\* errorOccurred = true and is never followed by another attempt.
C15_ErrorAttempt ==
    /\ (attempts >= 1 /\ ~NoError(events)) =>
          /\ hasError
          /\ fullResponse = TextOf(events)
          /\ \E i \in 1..Len(fullResponse) :
                fullResponse[i] = "\nError occurred while executing the tool"
          /\ AttemptReturned => errorOccurred /\ code = fullResponse
    /\ pc = "call_writer" => NoError(events)

\* an attempt whose error came first and whose later events were consumed
C15_Witness ==
    /\ pc = "after_loop"
    /\ Len(events) = 3
    /\ events[1].type = "error"
    /\ events[2] = TextDelta(<<"a">>)
    /\ events[3].type = "tool-call"
    /\ code = <<"\nError occurred while executing the tool", "a">>
    /\ toolCalls = <<"t1">>
    /\ errorOccurred

\* the event sequence holds a non-empty text fragment
HasText(es) ==
    \E i \in 1..Len(es) : es[i].type = "text-delta" /\ es[i].textDelta # <<>>

\* how often node n occurs in the UI tree
CountNodes(n) ==
    Cardinality({i \in 1..Len(uiStream.nodes) : uiStream.nodes[i] = n})

\* C16: in every attempt that has received a non-empty text fragment, the
\* UI Node has been replaced with the code section and the progress
\* indicator appended exactly once (the indicator staying until the
\* end-of-attempt clear), for every event order, an error event before the
\* first text fragment included.
C16_CodeSectionOnce ==
    (attempts >= 1 /\ HasText(events)) =>
       /\ CountNodes("Section: Code") = 1
       /\ pc \in {"for_await", "writer_finish"} =>
             CountNodes("Spinner: Generating code...") = 1

\* the event sequence makes the attempt install the code section: it holds
\* a non-empty text fragment that no error event precedes
InstallsCode(es) ==
    \E i \in 1..Len(es) :
       /\ es[i].type = "text-delta" /\ es[i].textDelta # <<>>
       /\ \A j \in 1..(i - 1) : es[j].type # "error"

\* C17: once an attempt has installed the code section, the section stays
\* in the UI tree through the end-of-attempt clear and every later update
\* and append, up to and after uiStream.done(); after the clear the
\* 'Generating code...' indicator is no longer in the tree.
C17_ClearKeepsCode ==
    (attempts >= 1 /\ InstallsCode(events)) =>
       /\ CountNodes("Section: Code") = 1
       /\ AttemptReturned => CountNodes("Spinner: Generating code...") = 0
       /\ uiStream.done = 1 =>
             \E i \in 1..Len(uiStream.nodes) : uiStream.nodes[i] = "Section: Code"

\* a finished exchange whose tree is code, cleared indicator, suggestions,
\* follow-up
C17_Witness ==
    /\ pc = "done"
    /\ uiStream.done = 1
    /\ uiStream.nodes =
         <<"Section: Code", "null", "Suggestions", "Section: Follow-up">>

HasToolResult(es) == \E i \in 1..Len(es) : es[i].type = "tool-result"

RECURSIVE ToolCallsOf(_)
\* the tool invocations of an event sequence, in arrival order
ToolCallsOf(es) ==
    IF es = <<>> THEN <<>>
    ELSE IF es[Len(es)].type = "tool-call"
         THEN Append(ToolCallsOf(Front(es)), es[Len(es)].toolName)
         ELSE ToolCallsOf(Front(es))

\* C18: each generation attempt, an empty one included, appends exactly one
\* assistant Turn holding its text followed by its tool invocations in
\* arrival order; when its event stream holds a tool result event a tool
\* Turn follows immediately, and none otherwise.
C18_AttemptTurns ==
    (attempts >= 1 /\ AttemptReturned /\ ~folded) =>
       LET n == Len(messages)
           turn == Turn("assistant", fullResponse, ToolCallsOf(events), 0)
       IN /\ Len(AttemptTexts) = attempts
          /\ IF HasToolResult(events)
             THEN n >= 2 /\ messages[n].role = "tool" /\ messages[n - 1] = turn
             ELSE n >= 1 /\ messages[n] = turn

\* C19: when a generation exchange has terminated, the last value pushed to
\* the code Value stream is the text the accepted attempt returned, which is
\* the content of the committed final assistant Turn, for every event
\* stream, streams with an error event included.
C19_StreamMatchesTranscript ==
    GenerateEnded =>
       /\ aiState[Len(aiState)].content = code
       /\ codeStream.pushes # <<>>
       /\ codeStream.pushes[Len(codeStream.pushes)] = code

\* C20: when a generation exchange has reached its terminal state, the
\* code Value stream created for it has been marked done as well.
C20_CodeStreamDone ==
    GenerateEnded => (codeStream.created /\ codeStream.done = 1)
====
